---- MODULE Spec2Model ----
(***************************************************************************)
(* Paper classification pipeline of the repository.                        *)
(*                                                                         *)
(* Two entry points are modelled, each a sequential script:                *)
(*   program = "classify" : src/classify.py   (download, section excerpt,  *)
(*                          word chunks, classify_chunk per chunk, merge)  *)
(*   program = "main"     : src/main.py + src/classify4.py (one call_groq  *)
(*                          per paper, retry on HTTP 429, CSV rows)        *)
(* and three functions in isolation:                                        *)
(*   SpecChunk            : chunk_text of src/classify.py over bounded     *)
(*                          texts and chunk sizes;                         *)
(*   SpecMerge            : merge_classifications of src/classify.py over  *)
(*                          bounded lists of candidates;                   *)
(*   SpecExtract          : extract_pdf_sections of src/classify.py over   *)
(*                          bounded documents.                             *)
(*                                                                         *)
(* Text is a sequence of one-character strings.  A model reply is kept as  *)
(* its structure (fenced or not, and the JSON value or non-JSON text it    *)
(* holds); the HTTP answer as its kind.                                    *)
(***************************************************************************)
EXTENDS Integers, Sequences, FiniteSets, TLC

VARIABLES
    program,          \* what runs: "classify" | "main" | a function's name
    pc,               \* position of the script
    p_idx,            \* index (1-based) of the paper of the current iteration
    output,           \* rows appended so far (dataset / output)
    classification,   \* last value bound to `classification` in the loop
    pdf_text,         \* excerpt of the current paper
    classifications,  \* classify_paper's list of chunk candidates
    chunk_i,          \* chunk_text's range index i (0-based, in words)
    requests_sent,    \* requests.post calls made by the current call
    waits,            \* time.sleep(10) calls made by the current call
    inflight,         \* requests sent and not yet answered
    resp,             \* the last HTTP answer of the current call
    acq,              \* how the PDF of the current paper was acquired
    sent,             \* the requests posted for the current paper, in order
    ct_text,          \* SpecChunk: text given to chunk_text
    ct_size,          \* SpecChunk: chunk_size given to chunk_text
    ct_i,             \* SpecChunk: the generator's range index i
    ct_chunks,        \* SpecChunk: chunks yielded so far
    ct_pc,            \* SpecChunk: "running" | "exhausted"
    mg_list,          \* SpecMerge: class_list given to merge_classifications
    mg_i,             \* SpecMerge: candidates the for loop has taken
    mg_merged,        \* SpecMerge: the three sets of `merged`
    mg_result,        \* SpecMerge: the value returned
    mg_pc,            \* SpecMerge: "loop" | "returned" | "raised"
    ex_pages,         \* SpecExtract: the text of every page of the PDF
    ex_lines,         \* SpecExtract: `lines` of extract_pdf_sections
    ex_result,        \* SpecExtract: the lines of the excerpt returned
    ex_pc             \* SpecExtract: "read" | "sections" | "returned"

pipeline_vars == <<program, pc, p_idx, output, classification, pdf_text,
                   classifications, chunk_i, requests_sent, waits, inflight, resp, acq,
                   sent>>
chunk_vars == <<ct_text, ct_size, ct_i, ct_chunks, ct_pc>>
merge_vars == <<mg_list, mg_i, mg_merged, mg_result, mg_pc>>
extract_vars == <<ex_pages, ex_lines, ex_result, ex_pc>>
harness_vars == <<ct_text, ct_size, ct_i, ct_chunks, ct_pc,
                  mg_list, mg_i, mg_merged, mg_result, mg_pc,
                  ex_pages, ex_lines, ex_result, ex_pc>>
vars == <<program, pc, p_idx, output, classification, pdf_text,
          classifications, chunk_i, requests_sent, waits, inflight, resp, acq,
          sent,
          ct_text, ct_size, ct_i, ct_chunks, ct_pc,
          mg_list, mg_i, mg_merged, mg_result, mg_pc,
          ex_pages, ex_lines, ex_result, ex_pc>>

(***************************************************************************)
(* Bounds of the model.                                                    *)
(***************************************************************************)
\* papers in the list of a run
NumPapers == 2
\* longest excerpt (in characters) of a paper in a pipeline run
MaxTextLen == 3
\* chunk_size of the pipeline run; the default of classify.py:77 is 1500
\* words, scaled so that an excerpt within MaxTextLen gives several chunks
ChunkSizeDefault == 1
\* most HTTP 429 answers the service gives to one call
MaxThrottle == 2
\* SpecChunk: longest text and largest chunk_size given to chunk_text
MaxChunkTextLen == 4
MaxChunkSize == 3
\* SpecMerge: longest class_list given to merge_classifications
MaxCandidates == 3
\* SpecExtract: most lines of a document
MaxDocLines == 5
\* lines of the document taken as the introduction; classify.py:62 takes
\* 200, scaled so that a document within MaxDocLines is longer
IntroLines == 3
\* lines taken when a marker is missing; classify.py:59 and 69 take 50,
\* scaled likewise
FallbackLines == 1
\* lines of the conclusion in the statement of C11 (150), scaled likewise
ClaimConclusionLines == 2

(***************************************************************************)
(* Generic helpers.                                                        *)
(***************************************************************************)
Range(s) == {s[i] : i \in DOMAIN s}

Min(a, b) == IF a < b THEN a ELSE b

SeqsUpTo(S, n) == UNION {[1..k -> S] : k \in 0..n}

\* every listing of the finite set S without repetition (list(set) order)
Orderings(S) == {s \in [1..Cardinality(S) -> S] : Range(s) = S}

Reorderings(s) ==
    {[i \in DOMAIN s |-> s[p[i]]] : p \in Orderings(DOMAIN s)}

CeilDiv(a, b) == (a + b - 1) \div b

(***************************************************************************)
(* Configuration: vocabularies and categories.                             *)
(***************************************************************************)
Categories == {"methodology", "field", "empirical_approach"}

METHODS == {"Econometrics", "Empirical", "Macro", "Theory"}

FIELDS == {"Behavioral", "Development", "Econometrics", "Experimental",
           "Finance", "Industrial Organization", "Labor", "Macro", "Public",
           "Theory", "Trade"}

APPROACHES == {"Descriptive/Observational", "Event Study", "Lab Experiment",
               "RCT", "Regression Discontinuity",
               "Structural Model Estimation", "Synthetic Control", "Other"}

AllowedVocabulary(k) ==
    CASE k = "methodology" -> METHODS
      [] k = "field" -> FIELDS
      [] k = "empirical_approach" -> APPROACHES

(***************************************************************************)
(* Python values.  A parsed JSON value is an object (dict) with its        *)
(* members, or an array (any value that is not a dict behaves alike in     *)
(* the code modelled: no .get, no string key).                             *)
(***************************************************************************)
JObj(m) == [type |-> "object", members |-> m]

JArr == [type |-> "array", members |-> <<>>]

\* the literal returned by classify.py on a failure (lines 142 and 157)
AllEmpty ==
    JObj([methodology |-> <<>>, field |-> <<>>, empirical_approach |-> <<>>])

\* the literal returned by classify4.py on a RequestException (lines 81-85)
AllDefault ==
    JObj([methodology |-> <<"Empirical">>, field |-> <<"Public">>,
          empirical_approach |-> <<"Descriptive/Observational">>])

\* the literal returned by classify4.py on a JSONDecodeError (lines 74-78)
AllError ==
    JObj([methodology |-> <<"Error">>, field |-> <<"Error">>,
          empirical_approach |-> <<"Error">>])

NoValue == [type |-> "none", members |-> <<>>]

\* the content of a model reply: wrapped in a ``` fence or not, holding text
\* that is valid JSON (with its value) or not
Content(fenced, valid, value) ==
    [fenced |-> fenced, valid |-> valid, value |-> value]

NoContent == Content(FALSE, FALSE, NoValue)

\* an HTTP answer: "ok" (status 200 with a completion), "bad_envelope"
\* (status 200 whose body has no choices[0].message.content), "throttled"
\* (status 429), "http_error" (another 4xx/5xx status), "conn_error"
\* (requests.post raised a RequestException)
Answer(kind, content) == [kind |-> kind, content |-> content]

NoAnswer == Answer("none", NoContent)

\* dict.get(k, [])
Get(c, k) == IF k \in DOMAIN c.members THEN c.members[k] ELSE <<>>

(***************************************************************************)
(* chunk_text (classify.py:77-80): words = text.split(); one chunk per     *)
(* range step of chunk_size words, joined by single spaces.                *)
(***************************************************************************)
Whitespace == {" ", "\n"}

\* str.split() with no argument: maximal runs of non-whitespace characters
RECURSIVE SplitFrom(_, _, _)
SplitFrom(text, i, word) ==
    IF i > Len(text)
    THEN IF word = <<>> THEN <<>> ELSE <<word>>
    ELSE IF text[i] \in Whitespace
         THEN IF word = <<>>
              THEN SplitFrom(text, i + 1, <<>>)
              ELSE <<word>> \o SplitFrom(text, i + 1, <<>>)
         ELSE SplitFrom(text, i + 1, Append(word, text[i]))

Split(text) == SplitFrom(text, 1, <<>>)

\* sep.join(parts) for parts that are character sequences
RECURSIVE JoinWith(_, _)
JoinWith(sep, parts) ==
    IF parts = <<>> THEN <<>>
    ELSE IF Len(parts) = 1 THEN parts[1]
    ELSE parts[1] \o sep \o JoinWith(sep, Tail(parts))

\* words[i:i+chunk_size] for the 0-based index i
Slice(words, i, chunk_size) ==
    SubSeq(words, i + 1, Min(i + chunk_size, Len(words)))

ChunkAtDropsLast(text, i, chunk_size) ==
    JoinWith(<<" ">>, Slice(Split(text), i, chunk_size - 1))

\* the chunk the generator yields at range index i
ChunkAt(text, i, chunk_size) ==
    JoinWith(<<" ">>, Slice(Split(text), i, chunk_size))

HasChunkOffByOne(text, i) == i <= Len(Split(text))

\* whether range(0, len(words), chunk_size) still has the index i
HasChunk(text, i) == i < Len(Split(text))

\* list(chunk_text(text, chunk_size)): the generator run to exhaustion
RECURSIVE ChunksFrom(_, _, _)
ChunksFrom(text, i, chunk_size) ==
    IF HasChunk(text, i)
    THEN <<ChunkAt(text, i, chunk_size)>> \o ChunksFrom(text, i + chunk_size, chunk_size)
    ELSE <<>>

chunk_text(text, chunk_size) == ChunksFrom(text, 0, chunk_size)

(***************************************************************************)
(* SpecChunk: chunk_text driven as a generator, one yield per step.        *)
(***************************************************************************)
ChunkAlphabet == {"a", "b", " ", "\n"}

PipelineIdle ==
    /\ pc = "idle"
    /\ p_idx = 1
    /\ output = <<>>
    /\ classification = NoValue
    /\ pdf_text = <<>>
    /\ classifications = <<>>
    /\ chunk_i = 0
    /\ requests_sent = 0
    /\ waits = 0
    /\ inflight = 0
    /\ resp = NoAnswer
    /\ acq = "none"
    /\ sent = <<>>

ChunkIdle ==
    /\ ct_text = <<>>
    /\ ct_size = 1
    /\ ct_i = 0
    /\ ct_chunks = <<>>
    /\ ct_pc = "idle"

MergeIdle ==
    /\ mg_list = <<>>
    /\ mg_i = 0
    /\ mg_merged = [methodology |-> {}, field |-> {}, empirical_approach |-> {}]
    /\ mg_result = NoValue
    /\ mg_pc = "idle"

ExtractIdle ==
    /\ ex_pages = <<>>
    /\ ex_lines = <<>>
    /\ ex_result = <<>>
    /\ ex_pc = "idle"

InitChunk ==
    /\ program = "chunk_text"
    /\ PipelineIdle
    /\ MergeIdle
    /\ ExtractIdle
    /\ ct_text \in SeqsUpTo(ChunkAlphabet, MaxChunkTextLen)
    /\ ct_size \in 1..MaxChunkSize
    /\ ct_i = 0
    /\ ct_chunks = <<>>
    /\ ct_pc = "running"

\* next(generator) while the range has an index left: yield one chunk
ChunkYield ==
    /\ program = "chunk_text"
    /\ ct_pc = "running"
    /\ HasChunk(ct_text, ct_i)
    /\ ct_chunks' = Append(ct_chunks, ChunkAt(ct_text, ct_i, ct_size))
    /\ ct_i' = ct_i + ct_size
    /\ UNCHANGED <<ct_text, ct_size, ct_pc>>
    /\ UNCHANGED pipeline_vars
    /\ UNCHANGED merge_vars
    /\ UNCHANGED extract_vars

\* next(generator) after the last index: StopIteration
ChunkStop ==
    /\ program = "chunk_text"
    /\ ct_pc = "running"
    /\ ~HasChunk(ct_text, ct_i)
    /\ ct_pc' = "exhausted"
    /\ UNCHANGED <<ct_text, ct_size, ct_i, ct_chunks>>
    /\ UNCHANGED pipeline_vars
    /\ UNCHANGED merge_vars
    /\ UNCHANGED extract_vars

NextChunk == ChunkYield \/ ChunkStop

SpecChunk == InitChunk /\ [][NextChunk]_vars

(***************************************************************************)
(* The model service: the replies and HTTP answers a call can get.         *)
(***************************************************************************)
CandEmpirical == JObj([methodology |-> <<"Empirical">>])

CandLabor == JObj([field |-> <<"Labor">>])

CandTheoryBad == JObj([methodology |-> <<"Theory">>, field |-> <<"Bad-Label">>])

CandFull ==
    JObj([methodology |-> <<"Theory", "Theory">>, field |-> <<"Public">>,
          empirical_approach |-> <<"RCT">>])

\* JSON values a reply can hold: objects with some or all of the category
\* keys, labels in or out of the vocabulary, empty lists, and a non-object
ReplyValues == {CandEmpirical, CandLabor, CandTheoryBad, CandFull, AllEmpty, JArr}

Contents ==
    {Content(f, TRUE, v) : f \in BOOLEAN, v \in ReplyValues}
        \cup {Content(f, FALSE, NoValue) : f \in BOOLEAN}

Answers ==
    {Answer("ok", c) : c \in Contents}
        \cup {Answer(k, NoContent) :
                k \in {"bad_envelope", "throttled", "http_error", "conn_error"}}

\* a category of a reply is well shaped when the value is an object holding
\* exactly the three category keys
WellShaped(v) == v.type = "object" /\ DOMAIN v.members = Categories

(***************************************************************************)
(* Reply parsing.                                                          *)
(***************************************************************************)
\* classify.py:133-137: a reply that starts and ends with ``` loses its
\* first and last line (and a leading "json"); the body is kept
strip_fences_classify(content) == Content(FALSE, content.valid, content.value)

\* classify4.py:71: re.sub(r"```.*?```", "", out, flags=re.S).strip()
\* deletes the fenced block together with what it holds
strip_fences_groq(content) ==
    IF content.fenced THEN NoContent ELSE content

Outcome(tag, value) == [tag |-> tag, value |-> value]

\* classify.py:126-142, for the answer the request got: any exception
\* (transport, status, envelope, JSON) gives the all-empty literal
classify_chunk(answer) ==
    IF answer.kind = "ok" /\ strip_fences_classify(answer.content).valid
    THEN strip_fences_classify(answer.content).value
    ELSE AllEmpty

call_groq_step_GivesUp(answer) ==
    CASE answer.kind \in {"throttled", "conn_error", "http_error"} ->
            Outcome("return", AllDefault)
      [] answer.kind = "bad_envelope" -> Outcome("raise", NoValue)
      [] answer.kind = "ok" ->
            IF strip_fences_groq(answer.content).valid
            THEN Outcome("return", strip_fences_groq(answer.content).value)
            ELSE Outcome("return", AllError)

call_groq_step_RetriesAll(answer) ==
    CASE answer.kind \in {"throttled", "conn_error", "http_error"} ->
            Outcome("retry", NoValue)
      [] answer.kind = "bad_envelope" -> Outcome("raise", NoValue)
      [] answer.kind = "ok" ->
            IF strip_fences_groq(answer.content).valid
            THEN Outcome("return", strip_fences_groq(answer.content).value)
            ELSE Outcome("return", AllError)

call_groq_step_Propagates(answer) ==
    CASE answer.kind = "throttled" -> Outcome("retry", NoValue)
      [] answer.kind \in {"conn_error", "http_error", "bad_envelope"} ->
            Outcome("raise", NoValue)
      [] answer.kind = "ok" ->
            IF strip_fences_groq(answer.content).valid
            THEN Outcome("return", strip_fences_groq(answer.content).value)
            ELSE Outcome("return", AllError)

\* classify4.py:58-85, one pass of the while loop for the answer the
\* request got: retry (after the sleep), return a value, or raise
call_groq_step(answer) ==
    CASE answer.kind = "throttled" -> Outcome("retry", NoValue)
      [] answer.kind \in {"conn_error", "http_error"} ->
            Outcome("return", AllDefault)
      [] answer.kind = "bad_envelope" -> Outcome("raise", NoValue)
      [] answer.kind = "ok" ->
            IF strip_fences_groq(answer.content).valid
            THEN Outcome("return", strip_fences_groq(answer.content).value)
            ELSE Outcome("return", AllError)

(***************************************************************************)
(* merge_classifications (classify.py:85-91).                              *)
(***************************************************************************)
EmptyMerged == [methodology |-> {}, field |-> {}, empirical_approach |-> {}]

MergeUpdateOverwrites(merged, c) ==
    [methodology |-> IF Get(c, "methodology") = <<>> THEN merged.methodology
                     ELSE Range(Get(c, "methodology")),
     field |-> IF Get(c, "field") = <<>> THEN merged.field
               ELSE Range(Get(c, "field")),
     empirical_approach |->
         IF Get(c, "empirical_approach") = <<>> THEN merged.empirical_approach
         ELSE Range(Get(c, "empirical_approach"))]

\* one pass of the for loop: merged[k].update(c.get(k, []))
MergeUpdate(merged, c) ==
    [methodology |-> merged.methodology \cup Range(Get(c, "methodology")),
     field |-> merged.field \cup Range(Get(c, "field")),
     empirical_approach |->
         merged.empirical_approach \cup Range(Get(c, "empirical_approach"))]

RECURSIVE MergeLoop(_, _)
MergeLoop(class_list, merged) ==
    IF class_list = <<>> THEN merged
    ELSE MergeLoop(Tail(class_list), MergeUpdate(merged, Head(class_list)))

\* c.get on a value that is not a dict raises AttributeError
MergeRaises(class_list) ==
    \E i \in DOMAIN class_list : class_list[i].type # "object"

MergeListsNoApproach(merged) ==
    {JObj([methodology |-> m, field |-> f]) :
        m \in Orderings(merged.methodology), f \in Orderings(merged.field)}

\* {k: list(v) for k, v in merged.items()}: list(set) lists the labels once
\* each, in an order the language does not fix
MergeLists(merged) ==
    {JObj([methodology |-> m, field |-> f, empirical_approach |-> e]) :
        m \in Orderings(merged.methodology),
        f \in Orderings(merged.field),
        e \in Orderings(merged.empirical_approach)}

\* the values merge_classifications(class_list) can return
merge_classifications(class_list) ==
    MergeLists(MergeLoop(class_list, EmptyMerged))

\* the label sets of a merged value
LabelSets(c) ==
    [methodology |-> Range(Get(c, "methodology")),
     field |-> Range(Get(c, "field")),
     empirical_approach |-> Range(Get(c, "empirical_approach"))]

(***************************************************************************)
(* SpecMerge: merge_classifications run on a list of candidates, one pass  *)
(* of its for loop per step.                                               *)
(***************************************************************************)
InitMerge ==
    /\ program = "merge_classifications"
    /\ PipelineIdle
    /\ ChunkIdle
    /\ ExtractIdle
    /\ mg_list \in SeqsUpTo(ReplyValues, MaxCandidates)
    /\ mg_i = 0
    /\ mg_merged = EmptyMerged
    /\ mg_result = NoValue
    /\ mg_pc = "loop"

\* classify.py:87-90: the loop takes the next candidate; .get on a
\* candidate that is not a dict raises
MergeStep ==
    /\ program = "merge_classifications"
    /\ mg_pc = "loop"
    /\ mg_i < Len(mg_list)
    /\ mg_i' = mg_i + 1
    /\ IF MergeRaises(<<mg_list[mg_i + 1]>>)
       THEN /\ mg_pc' = "raised"
            /\ UNCHANGED mg_merged
       ELSE /\ mg_merged' = MergeUpdate(mg_merged, mg_list[mg_i + 1])
            /\ UNCHANGED mg_pc
    /\ UNCHANGED <<mg_list, mg_result>>
    /\ UNCHANGED pipeline_vars
    /\ UNCHANGED chunk_vars
    /\ UNCHANGED extract_vars

\* classify.py:91: the loop is over, the sets are listed and returned
MergeReturn ==
    /\ program = "merge_classifications"
    /\ mg_pc = "loop"
    /\ mg_i = Len(mg_list)
    /\ mg_result' \in MergeLists(mg_merged)
    /\ mg_pc' = "returned"
    /\ UNCHANGED <<mg_list, mg_i, mg_merged>>
    /\ UNCHANGED pipeline_vars
    /\ UNCHANGED chunk_vars
    /\ UNCHANGED extract_vars

NextMerge == MergeStep \/ MergeReturn

SpecMerge == InitMerge /\ [][NextMerge]_vars

(***************************************************************************)
(* extract_pdf_sections (classify.py:42-72).  A line is kept as its number *)
(* in the document and the markers its lower-cased text contains; a page   *)
(* as the lines extract_text() gives for it (none for a page without       *)
(* text).  The excerpt "\n".join(...) is kept as its list of lines.        *)
(***************************************************************************)
Markers == {"abstract", "introduction", "conclusion"}

Line(no, has) == [no |-> no, has |-> has]

\* "marker" in l.lower()
Contains(l, marker) == marker \in l.has

\* classify.py:45-51: the text of the pages that have text, each followed
\* by a newline, split into lines
RECURSIVE ReadLines(_)
ReadLines(pages) ==
    IF pages = <<>> THEN <<>>
    ELSE IF Head(pages) = <<>> THEN ReadLines(Tail(pages))
    ELSE Head(pages) \o ReadLines(Tail(pages))

\* s[lo:hi] for 0 <= lo and 0 <= hi
PySlice(s, lo, hi) == SubSeq(s, lo + 1, Min(hi, Len(s)))

\* s[-n:] for n > 0
PyLast(s, n) == SubSeq(s, IF Len(s) > n THEN Len(s) - n + 1 ELSE 1, Len(s))

\* next(i for i, l in enumerate(lines) if marker in l.lower()): the 0-based
\* index of the first line holding the marker, -1 for StopIteration
RECURSIVE FirstIndexFrom(_, _, _)
FirstIndexFrom(lines, marker, i) ==
    IF i >= Len(lines) THEN -1
    ELSE IF Contains(lines[i + 1], marker) THEN i
    ELSE FirstIndexFrom(lines, marker, i + 1)

FirstIndex(lines, marker) == FirstIndexFrom(lines, marker, 0)

abstract_lines_KeepsMarker(lines) ==
    IF FirstIndex(lines, "abstract") = -1 \/ FirstIndex(lines, "introduction") = -1
    THEN PySlice(lines, 0, FallbackLines)
    ELSE PySlice(lines, FirstIndex(lines, "abstract"),
                 FirstIndex(lines, "introduction"))

\* classify.py:54-59
abstract_lines(lines) ==
    IF FirstIndex(lines, "abstract") = -1 \/ FirstIndex(lines, "introduction") = -1
    THEN PySlice(lines, 0, FallbackLines)
    ELSE PySlice(lines, FirstIndex(lines, "abstract") + 1,
                 FirstIndex(lines, "introduction"))

\* classify.py:62
intro_lines(lines) == PySlice(lines, 0, IntroLines)

conclusion_lines_NoFallback(lines) ==
    IF FirstIndex(lines, "conclusion") = -1
    THEN <<>>
    ELSE PySlice(lines, FirstIndex(lines, "conclusion"), Len(lines))

\* classify.py:65-69
conclusion_lines(lines) ==
    IF FirstIndex(lines, "conclusion") = -1
    THEN PyLast(lines, FallbackLines)
    ELSE PySlice(lines, FirstIndex(lines, "conclusion"), Len(lines))

\* classify.py:71-72, the lines joined
extract_pdf_sections(lines) ==
    abstract_lines(lines) \o intro_lines(lines) \o conclusion_lines(lines)

(***************************************************************************)
(* SpecExtract: extract_pdf_sections run on a document of two pages.       *)
(***************************************************************************)
\* what a line can hold: no marker, one marker, or the abstract and the
\* introduction markers together
LineKinds == {{}, {"abstract"}, {"introduction"}, {"conclusion"},
              {"abstract", "introduction"}}

Documents ==
    UNION {{[k \in 1..n |-> Line(k, has[k])] : has \in [1..n -> LineKinds]} :
              n \in 0..MaxDocLines}

InitExtract ==
    /\ program = "extract_pdf_sections"
    /\ PipelineIdle
    /\ ChunkIdle
    /\ MergeIdle
    /\ \E doc \in Documents : \E cut \in 0..Len(doc) :
          ex_pages = <<SubSeq(doc, 1, cut), SubSeq(doc, cut + 1, Len(doc))>>
    /\ ex_lines = <<>>
    /\ ex_result = <<>>
    /\ ex_pc = "read"

\* classify.py:44-51: the pages are read and the text is split into lines
ExtractRead ==
    /\ program = "extract_pdf_sections"
    /\ ex_pc = "read"
    /\ ex_lines' = ReadLines(ex_pages)
    /\ ex_pc' = "sections"
    /\ UNCHANGED <<ex_pages, ex_result>>
    /\ UNCHANGED pipeline_vars
    /\ UNCHANGED chunk_vars
    /\ UNCHANGED merge_vars

\* classify.py:53-72: the three sections are cut and returned
ExtractSections ==
    /\ program = "extract_pdf_sections"
    /\ ex_pc = "sections"
    /\ ex_result' = extract_pdf_sections(ex_lines)
    /\ ex_pc' = "returned"
    /\ UNCHANGED <<ex_pages, ex_lines>>
    /\ UNCHANGED pipeline_vars
    /\ UNCHANGED chunk_vars
    /\ UNCHANGED merge_vars

NextExtract == ExtractRead \/ ExtractSections

SpecExtract == InitExtract /\ [][NextExtract]_vars

(***************************************************************************)
(* The drivers' rows.                                                      *)
(***************************************************************************)
\* "; ".join(labels)
RECURSIVE JoinStr(_, _)
JoinStr(sep, labels) ==
    IF labels = <<>> THEN ""
    ELSE IF Len(labels) = 1 THEN labels[1]
    ELSE labels[1] \o sep \o JoinStr(sep, Tail(labels))

\* main.py:15-17: classification["methodology"] and the like raise on a
\* value that is not a dict (TypeError) or lacks the key (KeyError)
RowRaises(c) == c.type # "object" \/ ~(Categories \subseteq DOMAIN c.members)

OutputRowNoApproach(p, c) ==
    [paper |-> p,
     methodology |-> JoinStr("; ", c.members.methodology),
     field |-> JoinStr("; ", c.members.field)]

\* main.py:10-18; paper p stands for its title, authors, journal and date
OutputRow(p, c) ==
    [paper |-> p,
     methodology |-> JoinStr("; ", c.members.methodology),
     field |-> JoinStr("; ", c.members.field),
     empirical_approach |-> JoinStr("; ", c.members.empirical_approach)]

\* classify.py:240-246
DatasetRow(p, c) == [paper |-> p, classification |-> c]

\* the pdf locator of every paper: URLs in classify.py:174-231, local paths
\* in papers.py:4-54
papers(prog) ==
    [i \in 1..NumPapers |-> [pdf |-> IF prog = "classify" THEN "url" ELSE "local"]]

\* classify.py:150: pdf_path.startswith("http://") or startswith("https://")
IsUrl(paper) == paper.pdf = "url"

TextAlphabet == {"a", " "}

\* the excerpts a PDF can give
Texts == SeqsUpTo(TextAlphabet, MaxTextLen)

\* the excerpts given to classify.py, which cuts them into chunks: two
\* different letters, so that the chunks of an excerpt can differ
ChunkedAlphabet == {"a", "b", " "}
ChunkedTexts == SeqsUpTo(ChunkedAlphabet, MaxTextLen)

\* what a request carries: the paper's metadata and the text put in the
\* prompt
Request(paper, text) == [paper |-> paper, text |-> text]

chunk_request_FirstChunk(paper, text, i) ==
    Request(paper, ChunkAt(text, 0, ChunkSizeDefault))

\* classify.py:163-164, 99-122: the request classify_chunk builds for the
\* chunk the generator yields at range index i
chunk_request(paper, text, i) ==
    Request(paper, ChunkAt(text, i, ChunkSizeDefault))

\* classify4.py:47-56: the request call_groq builds once, before its loop
call_groq_request(paper, text) == Request(paper, text)

(***************************************************************************)
(* The two scripts.                                                        *)
(***************************************************************************)
InitPipeline(prog) ==
    /\ program = prog
    /\ pc = "loop"
    /\ p_idx = 1
    /\ output = <<>>
    /\ classification = NoValue
    /\ pdf_text = <<>>
    /\ classifications = <<>>
    /\ chunk_i = 0
    /\ requests_sent = 0
    /\ waits = 0
    /\ inflight = 0
    /\ resp = NoAnswer
    /\ acq = "none"
    /\ sent = <<>>
    /\ ChunkIdle
    /\ MergeIdle
    /\ ExtractIdle

Init == InitPipeline("classify") \/ InitPipeline("main")

\* ---- classify.py ----

\* classify.py:238-239 and 147-160: the loop takes the next paper and
\* classify_paper downloads the PDF and extracts its sections.  A failed
\* download returns the all-empty literal; PdfReader raising is not caught.
ClsBeginPaper ==
    /\ program = "classify"
    /\ pc = "loop"
    /\ p_idx <= NumPapers
    /\ classifications' = <<>>
    /\ chunk_i' = 0
    /\ resp' = NoAnswer
    /\ \/ /\ IsUrl(papers(program)[p_idx])
          /\ acq' = "download_failed"
          /\ classification' = AllEmpty
          /\ pc' = "append"
          /\ UNCHANGED pdf_text
       \/ /\ acq' = "read_failed"
          /\ pc' = "aborted"
          /\ UNCHANGED <<classification, pdf_text>>
       \/ /\ acq' = "ok"
          /\ pdf_text' \in ChunkedTexts
          /\ pc' = "chunks"
          /\ UNCHANGED classification
    /\ UNCHANGED <<program, p_idx, output, requests_sent, waits, inflight>>
    /\ sent' = <<>>
    /\ UNCHANGED harness_vars

\* classify.py:163-164 and 127: the generator yields the next chunk and
\* classify_chunk posts the request for it
ClsSend ==
    /\ program = "classify"
    /\ pc = "chunks"
    /\ HasChunk(pdf_text, chunk_i)
    /\ requests_sent' = 1
    /\ waits' = 0
    /\ inflight' = inflight + 1
    /\ pc' = "await"
    /\ UNCHANGED <<program, p_idx, output, classification, pdf_text,
                   classifications, chunk_i, resp, acq>>
    /\ sent' = Append(sent, chunk_request(p_idx, pdf_text, chunk_i))
    /\ UNCHANGED harness_vars

\* classify.py:127-142 and 164-165: the answer arrives, classify_chunk
\* returns its candidate, which is appended; sleep(1); next range index
ClsReceive ==
    /\ program = "classify"
    /\ pc = "await"
    /\ \E answer \in Answers :
          /\ resp' = answer
          /\ classifications' = Append(classifications, classify_chunk(answer))
    /\ inflight' = inflight - 1
    /\ chunk_i' = chunk_i + ChunkSizeDefault
    /\ pc' = "chunks"
    /\ UNCHANGED <<program, p_idx, output, classification, pdf_text,
                   requests_sent, waits, acq>>
    /\ UNCHANGED sent
    /\ UNCHANGED harness_vars

\* classify.py:168-169 and 239: the generator is exhausted, the candidates
\* are merged and classify_paper returns
ClsMerge ==
    /\ program = "classify"
    /\ pc = "chunks"
    /\ ~HasChunk(pdf_text, chunk_i)
    /\ IF MergeRaises(classifications)
       THEN /\ pc' = "aborted"
            /\ UNCHANGED classification
       ELSE /\ classification' \in merge_classifications(classifications)
            /\ pc' = "append"
    /\ UNCHANGED <<program, p_idx, output, pdf_text, classifications, chunk_i,
                   requests_sent, waits, inflight, resp, acq>>
    /\ UNCHANGED sent
    /\ UNCHANGED harness_vars

\* classify.py:240-246: dataset.append(...)
ClsAppend ==
    /\ program = "classify"
    /\ pc = "append"
    /\ output' = Append(output, DatasetRow(p_idx, classification))
    /\ p_idx' = p_idx + 1
    /\ pc' = "loop"
    /\ UNCHANGED <<program, classification, pdf_text, classifications, chunk_i,
                   requests_sent, waits, inflight, resp, acq>>
    /\ UNCHANGED sent
    /\ UNCHANGED harness_vars

\* classify.py:251: the loop is over, the dataset is printed
ClsFinish ==
    /\ program = "classify"
    /\ pc = "loop"
    /\ p_idx > NumPapers
    /\ pc' = "done"
    /\ UNCHANGED <<program, p_idx, output, classification, pdf_text,
                   classifications, chunk_i, requests_sent, waits, inflight,
                   resp, acq>>
    /\ UNCHANGED sent
    /\ UNCHANGED harness_vars

\* ---- main.py with classify4.py ----

\* main.py:8-9 and classify4.py:92-100, 33-39: the loop takes the next
\* paper and classify_paper extracts the text; PdfReader raising is not
\* caught
MainBeginPaper ==
    /\ program = "main"
    /\ pc = "loop"
    /\ p_idx <= NumPapers
    /\ requests_sent' = 0
    /\ waits' = 0
    /\ resp' = NoAnswer
    /\ \/ /\ acq' = "read_failed"
          /\ pc' = "aborted"
          /\ UNCHANGED pdf_text
       \/ /\ acq' = "ok"
          /\ pdf_text' \in Texts
          /\ pc' = "send"
    /\ UNCHANGED <<program, p_idx, output, classification, classifications,
                   chunk_i, inflight>>
    /\ sent' = <<>>
    /\ UNCHANGED harness_vars

\* classify4.py:60: requests.post(...) with the call's payload
MainSend ==
    /\ program = "main"
    /\ pc = "send"
    /\ requests_sent' = requests_sent + 1
    /\ inflight' = inflight + 1
    /\ pc' = "await"
    /\ UNCHANGED <<program, p_idx, output, classification, pdf_text,
                   classifications, chunk_i, waits, resp, acq>>
    /\ sent' = Append(sent, call_groq_request(p_idx, pdf_text))
    /\ UNCHANGED harness_vars

\* classify4.py:60-85 and main.py:9-18: the answer arrives.  On 429 the
\* loop goes to its sleep; otherwise call_groq returns or raises, and on a
\* return the row is built and appended (or building it raises).
MainReceive ==
    /\ program = "main"
    /\ pc = "await"
    /\ inflight' = inflight - 1
    /\ \E answer \in Answers :
          /\ answer.kind = "throttled" => waits < MaxThrottle
          /\ resp' = answer
          /\ LET step == call_groq_step(answer)
             IN CASE step.tag = "retry" ->
                        /\ pc' = "sleep"
                        /\ UNCHANGED <<classification, output, p_idx>>
                  [] step.tag = "raise" ->
                        /\ pc' = "aborted"
                        /\ UNCHANGED <<classification, output, p_idx>>
                  [] step.tag = "return" ->
                        /\ classification' = step.value
                        /\ IF RowRaises(step.value)
                           THEN /\ pc' = "aborted"
                                /\ UNCHANGED <<output, p_idx>>
                           ELSE /\ output' = Append(output, OutputRow(p_idx, step.value))
                                /\ p_idx' = p_idx + 1
                                /\ pc' = "loop"
    /\ UNCHANGED <<program, pdf_text, classifications, chunk_i, requests_sent,
                   waits, acq>>
    /\ UNCHANGED sent
    /\ UNCHANGED harness_vars

\* classify4.py:62-64: time.sleep(10); continue
MainSleep ==
    /\ program = "main"
    /\ pc = "sleep"
    /\ waits' = waits + 1
    /\ pc' = "send"
    /\ UNCHANGED <<program, p_idx, output, classification, pdf_text,
                   classifications, chunk_i, requests_sent, inflight, resp, acq>>
    /\ UNCHANGED sent
    /\ UNCHANGED harness_vars

\* main.py:21-32: the loop is over, the rows are written to the CSV file
MainFinish ==
    /\ program = "main"
    /\ pc = "loop"
    /\ p_idx > NumPapers
    /\ pc' = "done"
    /\ UNCHANGED <<program, p_idx, output, classification, pdf_text,
                   classifications, chunk_i, requests_sent, waits, inflight,
                   resp, acq>>
    /\ UNCHANGED sent
    /\ UNCHANGED harness_vars

Next ==
    \/ ClsBeginPaper
    \/ ClsSend
    \/ ClsReceive
    \/ ClsMerge
    \/ ClsAppend
    \/ ClsFinish
    \/ MainBeginPaper
    \/ MainSend
    \/ MainReceive
    \/ MainSleep
    \/ MainFinish

Spec == Init /\ [][Next]_vars

NextMain ==
    \/ MainBeginPaper
    \/ MainSend
    \/ MainReceive
    \/ MainSleep
    \/ MainFinish

\* main.py alone, under the scheduling of a sequential script: it keeps
\* running while it has a step to take, and the service answers every
\* request
FairSpecMain ==
    /\ InitPipeline("main")
    /\ [][NextMain]_vars
    /\ WF_vars(NextMain)

(***************************************************************************)
(* C9.                                                                     *)
(***************************************************************************)
Concat(chunks) == JoinWith(<<>>, chunks)

\* C9 (as stated): once the generator is exhausted, the chunks concatenated
\* in order are the original text, character for character, and there are
\* ceil(len(text) / chunk_size) of them.
C9_Original ==
    ct_pc = "exhausted" =>
        /\ Concat(ct_chunks) = ct_text
        /\ Len(ct_chunks) = CeilDiv(Len(ct_text), ct_size)

\* C9 (amended): once the generator is exhausted, the chunks joined by single
\* spaces are the words of the text, in order, joined by single spaces (the
\* whitespace between words is normalised, leading and trailing whitespace
\* is dropped); there are ceil(#words / chunk_size) chunks, every chunk but
\* the last holds exactly chunk_size words and the last holds 1..chunk_size.
C9_ChunkCoverage ==
    ct_pc = "exhausted" =>
        LET words == Split(ct_text)
            n == Len(ct_chunks)
        IN /\ JoinWith(<<" ">>, ct_chunks) = JoinWith(<<" ">>, words)
           /\ n = CeilDiv(Len(words), ct_size)
           /\ \A k \in 1..n :
                 /\ Len(Split(ct_chunks[k])) \in 1..ct_size
                 /\ k < n => Len(Split(ct_chunks[k])) = ct_size
           /\ ct_chunks = chunk_text(ct_text, ct_size)

\* a text with irregular whitespace split into several chunks, the last
\* one shorter
C9_Witness ==
    /\ ct_pc = "exhausted"
    /\ ct_text = <<"a", "\n", " ", "b">>
    /\ ct_size = 1
    /\ ct_chunks = << <<"a">>, <<"b">> >>

(***************************************************************************)
(* Claims about the pipeline.                                              *)
(***************************************************************************)
\* merge_classifications has returned
MergeReturned == program = "merge_classifications" /\ mg_pc = "returned"

\* C1 (as stated): the value merge_classifications returns holds exactly
\* the three categories, each with at least one label, whatever the
\* candidates (the empty list and empty or missing categories included).
C1_Original ==
    MergeReturned =>
        /\ WellShaped(mg_result)
        /\ \A k \in Categories : mg_result.members[k] # <<>>

\* C1 (amended): the value merge_classifications returns holds exactly the
\* three categories methodology, field and empirical_approach; a category
\* holds no label exactly when no candidate has a label for it (so for the
\* empty list every category is empty), and at least one label otherwise.
C1_MergeShape ==
    MergeReturned =>
        /\ WellShaped(mg_result)
        /\ \A k \in Categories :
              mg_result.members[k] = <<>>
                  <=> \A i \in DOMAIN mg_list : Get(mg_list[i], k) = <<>>

\* three candidates with missing categories were merged: methodology and
\* field are populated, empirical_approach is left empty
C1_Witness ==
    /\ MergeReturned
    /\ mg_list = <<CandEmpirical, CandLabor, CandTheoryBad>>
    /\ mg_result.members.methodology # <<>>
    /\ mg_result.members.field # <<>>
    /\ mg_result.members.empirical_approach = <<>>

\* C2 (as stated): every label of every row of the result belongs to the
\* vocabulary of its category; a candidate's label outside it is dropped.
C2_VocabularyClosure ==
    /\ program = "classify" =>
          \A r \in DOMAIN output : \A k \in Categories :
              Range(Get(output[r].classification, k)) \subseteq AllowedVocabulary(k)
    /\ (program = "merge_classifications" /\ mg_pc = "returned") =>
          \A k \in Categories :
              Range(Get(mg_result, k)) \subseteq AllowedVocabulary(k)

\* whether a row has category k populated
Populated(row, k) ==
    IF program = "main" THEN k \in DOMAIN row /\ row[k] # ""
    ELSE Get(row.classification, k) # <<>>

\* whether a row carries category k at all
Carries(row, k) ==
    IF program = "main" THEN k \in DOMAIN row
    ELSE /\ row.classification.type = "object"
         /\ k \in DOMAIN row.classification.members

\* C3 (as stated): a run that completes has written exactly one row per
\* requested paper, and every row has each of the three categories
\* populated with at least one label.
C3_Original ==
    pc = "done" =>
        /\ Len(output) = NumPapers
        /\ \A r \in DOMAIN output :
              /\ output[r].paper = r
              /\ \A k \in Categories : Populated(output[r], k)

\* C3 (amended): a run that completes has written exactly one row per
\* requested paper, in the order of the papers, and every row carries each
\* of the three categories; a category of a row can be empty (an empty
\* string in main.py's row, an empty list in classify.py's).
C3_OneRowPerPaper ==
    pc = "done" =>
        /\ Len(output) = NumPapers
        /\ \A r \in DOMAIN output :
              /\ output[r].paper = r
              /\ \A k \in Categories : Carries(output[r], k)

\* main.py completed and the model's all-empty reply for the last paper
\* gave a row whose three categories are empty strings
C3_Witness ==
    /\ program = "main"
    /\ pc = "done"
    /\ Len(output) = NumPapers
    /\ resp = Answer("ok", Content(FALSE, TRUE, AllEmpty))
    /\ output[NumPapers].paper = NumPapers
    /\ output[NumPapers].methodology = ""
    /\ output[NumPapers].field = ""
    /\ output[NumPapers].empirical_approach = ""

\* the step in which call_groq gets the answer to a request
Answered == program = "main" /\ pc = "await" /\ pc' # "await"

\* C4: on a 429 answer call_groq neither returns nor raises: it goes to its
\* fixed wait, leaving the rows and the paper as they are, and after the
\* wait it sends the request again; and every request that is answered
\* leads, after finitely many 429 answers, to the call's end (the row of
\* the paper appended, or the run aborted).
C4_ThrottleRetry ==
    /\ [][(Answered /\ resp'.kind = "throttled")
            => (pc' = "sleep" /\ UNCHANGED <<output, p_idx, classification>>)]_vars
    /\ [][(program = "main" /\ pc = "sleep")
            => (pc' = "send" /\ waits' = waits + 1
                /\ UNCHANGED <<output, p_idx, classification, requests_sent>>)]_vars
    /\ [][(program = "main" /\ pc = "send")
            => (pc' = "await" /\ requests_sent' = requests_sent + 1
                /\ UNCHANGED <<output, p_idx, classification, waits>>)]_vars
    /\ \A p \in 1..NumPapers :
          (pc = "await" /\ p_idx = p) ~> (pc = "aborted" \/ p_idx > p)

\* a call that was throttled MaxThrottle times and then returned a row
C4_Witness ==
    /\ program = "main"
    /\ pc = "loop"
    /\ waits = MaxThrottle
    /\ requests_sent = MaxThrottle + 1
    /\ Len(output) = 1
    /\ resp.kind = "ok"

\* a reply that is not valid JSON, or valid JSON of another shape than the
\* three category keys
Malformed(answer) ==
    /\ answer.kind = "ok"
    /\ ~(answer.content.valid /\ WellShaped(answer.content.value))

\* the candidate the client has just returned
Returned == IF program = "main" THEN classification
            ELSE classifications[Len(classifications)]

\* C5 (as stated): for a reply that is not valid JSON or is JSON of another
\* shape, the client does not raise and returns the neutral sentinel (all
\* categories empty, or all categories their default label).
C5_MalformedSentinel ==
    [][(program \in {"main", "classify"} /\ pc = "await" /\ Malformed(resp'))
          => (pc' # "aborted" /\ Returned' \in {AllEmpty, AllDefault})]_vars

\* a transport failure that is not throttling
TransportFailure(answer) == answer.kind \in {"http_error", "conn_error"}

\* C6 (as stated): on a non-throttling transport failure the client does not
\* retry and returns no candidate: the error aborts the run and no row is
\* written.
C6_Original ==
    [][(program = "main" /\ pc = "await" /\ TransportFailure(resp'))
          => (pc' = "aborted" /\ output' = output)]_vars

\* C6 (amended): on a non-throttling transport failure the client does not
\* retry and does not raise: it returns its fallback candidate (call_groq
\* of classify4.py the default labels Empirical / Public /
\* Descriptive/Observational, classify_chunk of classify.py the all-empty
\* candidate) and the run goes on: main.py appends the paper's row with the
\* default labels and takes the next paper.
C6_TransportFallback ==
    /\ [][(program = "main" /\ pc = "await" /\ TransportFailure(resp'))
            => /\ pc' = "loop"
               /\ requests_sent' = requests_sent
               /\ classification' = AllDefault
               /\ output' = Append(output, OutputRow(p_idx, AllDefault))
               /\ p_idx' = p_idx + 1]_vars
    /\ [][(program = "classify" /\ pc = "await" /\ TransportFailure(resp'))
            => /\ pc' = "chunks"
               /\ requests_sent' = requests_sent
               /\ classifications' = Append(classifications, AllEmpty)
               /\ UNCHANGED <<output, p_idx>>]_vars

\* main.py completed although the last call ended on an HTTP error: the row
\* of the paper holds the default labels
C6_Witness ==
    /\ program = "main"
    /\ pc = "done"
    /\ resp.kind = "http_error"
    /\ requests_sent = 1
    /\ output[NumPapers] =
          [paper |-> NumPapers, methodology |-> "Empirical", field |-> "Public",
           empirical_approach |-> "Descriptive/Observational"]

\* C7 (as stated): when the PDF of a paper cannot be fetched or read, the
\* run is not aborted and the paper's result is the fallback LabelSet.
C7_SourceUnavailable ==
    acq \in {"download_failed", "read_failed"} =>
        /\ pc # "aborted"
        /\ pc = "append" => classification = AllDefault

\* C8: merging the candidates in any order, or merging the merges of a
\* prefix and of the rest, gives for every category the set of labels of
\* the value merge_classifications returned.
C8_MergePermutation ==
    MergeReturned =>
        /\ \A perm \in Reorderings(mg_list) :
              \A m \in merge_classifications(perm) :
                  LabelSets(m) = LabelSets(mg_result)
        /\ \A j \in 0..Len(mg_list) :
              \A a \in merge_classifications(SubSeq(mg_list, 1, j)),
                 b \in merge_classifications(SubSeq(mg_list, j + 1, Len(mg_list))) :
                  \A m \in merge_classifications(<<a, b>>) :
                      LabelSets(m) = LabelSets(mg_result)

\* three candidates that differ, two of them with labels for the same
\* categories, so that an order-dependent merge would show
C8_Witness ==
    /\ MergeReturned
    /\ mg_list = <<CandTheoryBad, CandFull, CandEmpirical>>
    /\ LabelSets(mg_result) =
          [methodology |-> {"Empirical", "Theory"},
           field |-> {"Bad-Label", "Public"},
           empirical_approach |-> {"RCT"}]

\* C10 (as stated): for an empty excerpt no chunk is yielded, the client is
\* not invoked for the paper, and the paper's result holds the default
\* label in every category.
C10_Original ==
    (program = "classify" /\ acq = "ok" /\ pdf_text = <<>>) =>
        /\ pc # "await"
        /\ classifications = <<>>
        /\ pc = "append" => classification = AllDefault

\* C10 (amended): for an empty excerpt no chunk is yielded, the client is
\* not invoked for the paper, and the paper's result holds no label in any
\* of the three categories.
C10_EmptyExcerpt ==
    (program = "classify" /\ acq = "ok" /\ pdf_text = <<>>) =>
        /\ chunk_text(pdf_text, ChunkSizeDefault) = <<>>
        /\ pc # "await"
        /\ classifications = <<>>
        /\ pc = "append" => classification = AllEmpty
        /\ (pc = "loop" /\ p_idx > 1) =>
              output[p_idx - 1] = DatasetRow(p_idx - 1, AllEmpty)

\* the row of a paper with an empty excerpt was appended
C10_Witness ==
    /\ program = "classify"
    /\ acq = "ok"
    /\ pdf_text = <<>>
    /\ pc = "loop"
    /\ p_idx = 2
    /\ requests_sent = 0
    /\ output = <<DatasetRow(1, AllEmpty)>>

(***************************************************************************)
(* Claims about extract_pdf_sections.                                      *)
(***************************************************************************)
ExtractReturned == program = "extract_pdf_sections" /\ ex_pc = "returned"

\* whether some line of the document holds the marker
Found(marker) == \E k \in DOMAIN ex_lines : Contains(ex_lines[k], marker)

\* the number of the first line holding the marker
FirstLine(marker) ==
    CHOOSE k \in DOMAIN ex_lines :
        /\ Contains(ex_lines[k], marker)
        /\ \A j \in 1..(k - 1) : ~Contains(ex_lines[j], marker)

\* the lines of the document numbered lo .. hi
LinesNumbered(lo, hi) ==
    SelectSeq(ex_lines, LAMBDA l : lo <= l.no /\ l.no <= hi)

\* C11 (as stated): the excerpt is, in this order, the lines from the first
\* 'abstract' line up to but not including the first 'introduction' line
\* if both are found, then at most 200 lines from the first 'introduction'
\* line if found, then at most 150 lines from the first 'conclusion' line
\* if found.
C11_Original ==
    ExtractReturned =>
        ex_result =
            (IF Found("abstract") /\ Found("introduction")
             THEN LinesNumbered(FirstLine("abstract"), FirstLine("introduction") - 1)
             ELSE <<>>)
            \o (IF Found("introduction")
                THEN LinesNumbered(FirstLine("introduction"),
                                   FirstLine("introduction") + IntroLines - 1)
                ELSE <<>>)
            \o (IF Found("conclusion")
                THEN LinesNumbered(FirstLine("conclusion"),
                                   FirstLine("conclusion") + ClaimConclusionLines - 1)
                ELSE <<>>)

\* C11 (amended): the excerpt is, in this order, (a) the lines after the
\* first 'abstract' line up to but not including the first 'introduction'
\* line if both markers are found, and the first 50 lines of the document
\* otherwise, (b) the first 200 lines of the document, wherever the
\* 'introduction' line is, and (c) all the lines from the first
\* 'conclusion' line to the end of the document if found, and the last 50
\* lines of the document otherwise.
C11_ExcerptSections ==
    ExtractReturned =>
        ex_result =
            (IF Found("abstract") /\ Found("introduction")
             THEN LinesNumbered(FirstLine("abstract") + 1,
                                FirstLine("introduction") - 1)
             ELSE LinesNumbered(1, FallbackLines))
            \o LinesNumbered(1, IntroLines)
            \o (IF Found("conclusion")
                THEN LinesNumbered(FirstLine("conclusion"), Len(ex_lines))
                ELSE LinesNumbered(Len(ex_lines) - FallbackLines + 1, Len(ex_lines)))

\* the line numbers of the excerpt
ResultNumbers == [k \in DOMAIN ex_result |-> ex_result[k].no]

\* a document with the three markers, in order, on lines 1, 3 and 4 of 5:
\* the excerpt is line 2, then lines 1..IntroLines, then lines 4 and 5
C11_Witness ==
    /\ ExtractReturned
    /\ Len(ex_lines) = 5
    /\ FirstIndex(ex_lines, "abstract") = 0
    /\ FirstIndex(ex_lines, "introduction") = 2
    /\ FirstIndex(ex_lines, "conclusion") = 3
    /\ SubSeq(ResultNumbers, 1, 1) = <<2>>
    /\ SubSeq(ResultNumbers, Len(ex_result) - 1, Len(ex_result)) = <<4, 5>>
    /\ Len(ex_result) = 3 + Min(IntroLines, 5)

\* no line of the document holds a marker
NoMarker == \A m \in Markers : ~Found(m)

\* C12 (as stated): if no line holds any of the three markers, the excerpt
\* is empty.
C12_Original == (ExtractReturned /\ NoMarker) => ex_result = <<>>

\* C12 (amended): if no line holds any of the three markers, the excerpt is
\* the first 50 lines of the document, then its first 200 lines, then its
\* last 50 lines; it is empty only when the document has no line.
C12_NoMarkerFallback ==
    (ExtractReturned /\ NoMarker) =>
        /\ ex_result = LinesNumbered(1, FallbackLines)
                          \o LinesNumbered(1, IntroLines)
                          \o LinesNumbered(Len(ex_lines) - FallbackLines + 1,
                                           Len(ex_lines))
        /\ ex_result = <<>> <=> ex_lines = <<>>

\* a document of 5 lines without markers, on two pages: the excerpt starts
\* with line 1 twice and ends with line 5
C12_Witness ==
    /\ ExtractReturned
    /\ NoMarker
    /\ Len(ex_lines) = 5
    /\ Len(ex_pages[1]) = 2
    /\ SubSeq(ResultNumbers, 1, 2) = <<1, 1>>
    /\ ResultNumbers[Len(ex_result)] = 5

(***************************************************************************)
(* Claims about the order of the requests.                                 *)
(***************************************************************************)
\* the script is working on paper p_idx
InPaper == pc \in {"chunks", "await", "send", "sleep", "append"}

\* the texts of the requests posted for the current paper, in order
SentTexts == [k \in DOMAIN sent |-> sent[k].text]

C13_State ==
    /\ inflight \in {0, 1}
    /\ inflight = 1 <=> pc = "await"
    /\ InPaper =>
          /\ Len(output) = p_idx - 1
          /\ \A k \in DOMAIN sent : sent[k].paper = p_idx
    /\ (program = "classify" /\ pc \in {"chunks", "await"}) =>
          LET chunks == chunk_text(pdf_text, ChunkSizeDefault)
          IN /\ Len(sent) <= Len(chunks)
             /\ SentTexts = SubSeq(chunks, 1, Len(sent))
             /\ Len(classifications) = Len(sent) - inflight
    /\ (program = "classify" /\ pc = "append" /\ acq = "ok") =>
          /\ SentTexts = chunk_text(pdf_text, ChunkSizeDefault)
          /\ Len(classifications) = Len(sent)

C13_Step ==
    /\ inflight' > inflight =>
          /\ inflight = 0
          /\ \E r \in {sent'[Len(sent')]} : sent' = Append(sent, r)
    /\ sent' # sent => (inflight' > inflight \/ sent' = <<>>)
    /\ p_idx' # p_idx =>
          /\ p_idx' = p_idx + 1
          /\ output' # output
          /\ Len(output') = p_idx
          /\ inflight' = 0

\* C13: processing is sequential.  At most one request is in flight, and
\* a request is posted only when none is; within a paper of classify.py the
\* requests posted are those of the chunks of its excerpt, one per chunk
\* and in chunk order, each candidate being received before the next
\* request; every request of a paper is posted after the rows of all the
\* papers before it have been recorded, and the script moves to the next
\* paper only by recording a row.
C13_Sequential == []C13_State /\ [][C13_Step]_vars

\* classify.py has recorded paper 1 and merged paper 2, whose excerpt gave
\* two different chunks, each sent once and in order
C13_Witness ==
    /\ program = "classify"
    /\ pc = "append"
    /\ acq = "ok"
    /\ p_idx = 2
    /\ Len(output) = 1
    /\ Len(sent) = 2
    /\ sent[1].text # sent[2].text
    /\ SentTexts = chunk_text(pdf_text, ChunkSizeDefault)

(***************************************************************************)
(* Claims about the order of the merged labels.                            *)
(***************************************************************************)
\* the labels of the candidates in lexicographic order
LabelOrder == <<"Bad-Label", "Empirical", "Labor", "Public", "RCT", "Theory">>

Rank(label) == CHOOSE i \in DOMAIN LabelOrder : LabelOrder[i] = label

NoDuplicate(s) == \A i, j \in DOMAIN s : s[i] = s[j] => i = j

Sorted(s) == \A i, j \in DOMAIN s : i < j => Rank(s[i]) < Rank(s[j])

\* C14: each category of the merged value is a sorted sequence
\* without duplicates, the order being lexicographic, so that every merge
\* of the same candidates returns the identical value.
C14_Original ==
    MergeReturned =>
        /\ \A k \in Categories :
              /\ NoDuplicate(mg_result.members[k])
              /\ Sorted(mg_result.members[k])
        /\ \A m \in merge_classifications(mg_list) : m = mg_result

\* candidates that repeat the label "Theory", within one candidate and
\* across two, were merged; the label is listed once, and before
\* "Empirical" in this result although after it in another possible one
C14_Witness ==
    /\ MergeReturned
    /\ mg_list = <<CandFull, CandEmpirical, CandTheoryBad>>
    /\ mg_result.members.methodology = <<"Theory", "Empirical">>
    /\ \E m \in merge_classifications(mg_list) :
          m.members.methodology = <<"Empirical", "Theory">>

(***************************************************************************)
(* Claims about the retry loop of call_groq.                               *)
(***************************************************************************)
\* a call of call_groq has ended: it got an answer and left its loop
CallEnded ==
    program = "main" /\ pc \in {"loop", "done", "aborted"} /\ resp # NoAnswer

C15_State ==
    program = "main" =>
        /\ Len(sent) = requests_sent
        /\ \A j, k \in DOMAIN sent : sent[j] = sent[k]
        /\ pc = "send" => requests_sent = waits
        /\ pc = "await" => requests_sent = waits + 1
        /\ pc = "sleep" => (requests_sent = waits + 1 /\ resp.kind = "throttled")
        /\ CallEnded => (requests_sent = waits + 1 /\ resp.kind # "throttled")

C15_Step ==
    program = "main" =>
        /\ pc = "await" =>
              /\ resp'.kind = "throttled" <=> pc' = "sleep"
              /\ resp'.kind # "throttled" => pc' \in {"loop", "aborted"}
              /\ UNCHANGED <<requests_sent, waits, sent>>
        /\ pc = "sleep" =>
              /\ pc' = "send"
              /\ waits' = waits + 1
              /\ UNCHANGED <<requests_sent, sent, resp>>
        /\ pc = "send" =>
              /\ pc' = "await"
              /\ requests_sent' = requests_sent + 1
              /\ sent' = Append(sent, call_groq_request(p_idx, pdf_text))
              /\ UNCHANGED <<waits, pdf_text, p_idx>>

\* C15: in call_groq requests and waits alternate.  A 429 answer, and only
\* a 429 answer, is followed by one wait and then one new request with the
\* payload of the requests before it; any other answer ends the loop; so
\* while a request is out, and when the call has ended, the call has sent
\* one request more than it has waited, the waits being as many as the 429
\* answers it got.
C15_RetryAlternation == []C15_State /\ [][C15_Step]_vars

\* a call that got two 429 answers and then a transport failure: three
\* requests with the same payload, two waits
C15_Witness ==
    /\ CallEnded
    /\ resp.kind = "conn_error"
    /\ waits = 2
    /\ requests_sent = 3
    /\ Len(sent) = 3
    /\ sent[1] = sent[3]

====
